---- MODULE Spec2Model ----
(***************************************************************************)
(* ghunwatch: the interactive session of main.go as a state machine.       *)
(*                                                                         *)
(* Strings are sequences of byte values, compared as Go compares strings   *)
(* (bytewise, lexicographic).  The remote service is the set of watched    *)
(* repositories plus the outcome of each call, chosen nondeterministically.*)
(***************************************************************************)
EXTENDS Integers, Sequences, FiniteSets, Bags, TLC

VARIABLES
    state,      \* m.state
    err,        \* m.err
    table,      \* m.table: rows (with their selected flag), cursor, focus, sizing
    frame,      \* m.spinner: the animation frame
    cmds,       \* commands returned by Init/Update, not yet run (a bag)
    msgs,       \* messages posted by finished commands, not yet processed (a bag)
    remote,     \* the subscriptions the remote service holds
    listing,    \* the paginated listing served to the fetch of SpecFetch
    last        \* the step taken last: the event and what it did ("quit" ends
                \* the program)

vars == <<state, err, table, frame, cmds, msgs, remote, listing, last>>

-----------------------------------------------------------------------------
(* Bounds *)

\* ops dispatched and not yet completed that the model lets pile up
MaxOutstanding == 2
\* pages of one listing
MaxPages == 2
\* largest last-page estimate a response reports
MaxHint == 1
\* animation frames of the spinner that are told apart
NumFrames == 2

-----------------------------------------------------------------------------
(* Strings and subscriptions *)

Acme    == <<97, 99, 109, 101>>
Zeta    == <<122, 101, 116, 97>>
Widgets == <<119, 105, 100, 103, 101, 116, 115>>
Gadgets == <<103, 97, 100, 103, 101, 116, 115>>
Tools   == <<116, 111, 111, 108, 115>>

\* type sub struct { org, repo string }
sub(o, r) == [org |-> o, repo |-> r]

AcmeWidgets == sub(Acme, Widgets)
AcmeGadgets == sub(Acme, Gadgets)
ZetaTools   == sub(Zeta, Tools)

\* the repositories a listing may name
Universe == {AcmeWidgets, AcmeGadgets, ZetaTools}

\* the repositories the account of a session may watch when it starts
Watchable == {AcmeGadgets, ZetaTools}

\* Go's a < b on strings
StrLess(a, b) ==
    \E i \in 1..Len(b) :
        /\ \A j \in 1..(i - 1) : j <= Len(a) /\ a[j] = b[j]
        /\ (i > Len(a) \/ a[i] < b[i])

Range(s) == {s[i] : i \in DOMAIN s}

RECURSIVE Flatten(_)
Flatten(ps) == IF ps = <<>> THEN <<>> ELSE Head(ps) \o Flatten(Tail(ps))

-----------------------------------------------------------------------------
(* getSubs *)

\* the page size the client asks for
PerPage == 100

\* the less function given to sort.Slice (and a variant that forgets the
\* organization)
LessRepoOnly(a, b) == StrLess(a.repo, b.repo)
less(a, b) ==
    IF a.org = b.org THEN StrLess(a.repo, b.repo) ELSE StrLess(a.org, b.org)

\* sort.Slice(subs, less): insertion of each element at its place
RECURSIVE Insert(_, _)
Insert(x, s) ==
    IF s = <<>> THEN <<x>>
    ELSE IF less(x, Head(s)) THEN <<x>> \o s
    ELSE <<Head(s)>> \o Insert(x, Tail(s))

RECURSIVE sortSlice(_)
sortSlice(s) == IF s = <<>> THEN <<>> ELSE Insert(Head(s), sortSlice(Tail(s)))

\* var subs []sub
NilSlice == [elems |-> <<>>, cap |-> 0, nil |-> TRUE]

\* make([]sub, 0, n)
make(n) == [elems |-> <<>>, cap |-> n, nil |-> FALSE]

\* append(subs, x): the slice grows when its capacity is used up
append(sl, x) ==
    IF Len(sl.elems) < sl.cap
    THEN [sl EXCEPT !.elems = Append(@, x)]
    ELSE [elems |-> Append(sl.elems, x),
          cap   |-> IF sl.cap = 0 THEN 1 ELSE 2 * sl.cap,
          nil   |-> FALSE]

\* for _, r := range repos { subs = append(subs, sub{...}) }
RECURSIVE appendAll(_, _)
appendAll(sl, repos) ==
    IF repos = <<>> THEN sl
    ELSE appendAll(append(sl, Head(repos)), Tail(repos))

\* c.Activity.ListWatched(ctx, "", opts): the service answers page opts.Page
\* of the listing l; no page number (0) means the first page
ListWatched(l, page) ==
    LET p == IF page = 0 THEN 1 ELSE page IN
    IF p = l.failPage
    THEN [repos |-> <<>>, NextPage |-> 0, LastPage |-> 0, failed |-> TRUE]
    ELSE [repos    |-> l.pages[p],
          NextPage |-> IF p < Len(l.pages) THEN p + 1 ELSE 0,
          LastPage |-> l.lastPage,
          failed   |-> FALSE]

NoError == [kind |-> "nil"]
\* fmt.Errorf("fetching page %d of watched repos: %w", opts.Page, err)
FetchError(page) == [kind |-> "fetch", page |-> page]

\* the for loop of getSubs; reqs lists the page numbers requested so far
RECURSIVE getSubsLoop(_, _, _, _)
getSubsLoop(l, subs, page, reqs) ==
    LET res   == ListWatched(l, page)
        reqs1 == Append(reqs, page)
    IN  IF res.failed
        THEN [subs |-> <<>>, err |-> FetchError(page), reqs |-> reqs1]
        ELSE LET s0 == IF subs.nil THEN make(res.LastPage * PerPage) ELSE subs
                 s1 == appendAll(s0, res.repos)
             IN  IF res.NextPage = 0
                 THEN [subs |-> sortSlice(s1.elems), err |-> NoError,
                       reqs |-> reqs1]
                 ELSE getSubsLoop(l, s1, res.NextPage, reqs1)

getSubs(l) == getSubsLoop(l, NilSlice, 0, <<>>)

-----------------------------------------------------------------------------
(* The remote listing: how the service may page a set of subscriptions *)

Perms(S) == {p \in [1..Cardinality(S) -> S] : Range(p) = S}

\* s cut into n consecutive pages (a page may be empty)
Cuts(s, n) ==
    {[i \in 1..n |->
         SubSeq(s, (IF i = 1 THEN 0 ELSE c[i - 1]) + 1,
                   IF i = n THEN Len(s) ELSE c[i])] :
       c \in {d \in [1..(n - 1) -> 0..Len(s)] :
                 \A i \in 1..(n - 2) : d[i] <= d[i + 1]}}

\* every listing of the set S: page contents, last-page estimate, and the
\* page whose request fails (0: none fails)
ListingsOf(S) ==
    {l \in {[pages |-> ps, lastPage |-> h, failPage |-> f] :
               ps \in UNION {Cuts(q, n) : q \in Perms(S), n \in 1..MaxPages},
               h \in 0..MaxHint, f \in 0..MaxPages} :
       l.failPage <= Len(l.pages)}

NoListing == [pages |-> <<>>, lastPage |-> 0, failPage |-> 0]

-----------------------------------------------------------------------------
(* The table widget, as far as main.go drives it *)

\* lipgloss.Height(m.help.ShortHelpView(km.ShortHelp())): one line
HelpHeight == 1

\* table.New(...).SelectableRows(true)
newTable ==
    [rows |-> <<>>, rowCursorIndex |-> 0, focused |-> FALSE,
     targetWidth |-> 0, pageSize |-> 0]

\* table.NewRow(table.RowData{colSub: s, colOrg: s.org, colRepo: s.repo})
NewRow(s) == [data |-> s, selected |-> FALSE]

\* rows[i] = table.NewRow(...) for each of msg.subs
newRows(subs) == [i \in 1..Len(subs) |-> NewRow(subs[i])]

\* m.table.WithRows(rows) (and a variant that keeps the rows it has)
WithRowsKeepOld(t, rows) == t
WithRows(t, rows) ==
    LET c == IF t.rowCursorIndex >= Len(rows) THEN Len(rows) - 1
             ELSE t.rowCursorIndex
    IN  [t EXCEPT !.rows = rows, !.rowCursorIndex = IF c < 0 THEN 0 ELSE c]

\* .Focused(true)
Focused(t, f) == [t EXCEPT !.focused = f]

\* m.table.SelectedRows(), as the subs they carry (r.Data[colSub].(sub))
RECURSIVE selectedSubsOf(_)
selectedSubsOf(rows) ==
    IF rows = <<>> THEN <<>>
    ELSE (IF Head(rows).selected THEN <<Head(rows).data>> ELSE <<>>)
         \o selectedSubsOf(Tail(rows))

RECURSIVE allSubsOf(_)
allSubsOf(rows) ==
    IF rows = <<>> THEN <<>> ELSE <<Head(rows).data>> \o allSubsOf(Tail(rows))

\* the subs of every row, marked or not
AllRowSubs(t) == allSubsOf(t.rows)
SelectedSubs(t) == selectedSubsOf(t.rows)

\* the mark key on the focused row (and a variant that only ever marks)
ToggleSelectSet(t) ==
    IF Len(t.rows) = 0 THEN t
    ELSE [t EXCEPT !.rows[t.rowCursorIndex + 1].selected = TRUE]
toggleSelect(t) ==
    IF Len(t.rows) = 0 THEN t
    ELSE [t EXCEPT !.rows[t.rowCursorIndex + 1].selected = ~@]

moveHighlightDown(t) ==
    [t EXCEPT !.rowCursorIndex =
        IF @ + 1 >= Len(t.rows) THEN 0 ELSE @ + 1]

moveHighlightUp(t) ==
    [t EXCEPT !.rowCursorIndex = IF @ - 1 < 0 THEN Len(t.rows) - 1 ELSE @ - 1]

\* the keys the table reacts to
TableKeys == {" ", "down", "up"}

\* m.table.Update(msg) for a key press; every other message leaves it alone
tableUpdate(t, k) ==
    IF ~t.focused THEN t
    ELSE CASE k = " "    -> toggleSelect(t)
           [] k = "down" -> moveHighlightDown(t)
           [] k = "up"   -> moveHighlightUp(t)
           [] OTHER      -> t

\* tea.WindowSizeMsg values the terminal may report
Sizes == {[Width |-> 80, Height |-> 24]}

\* m.table.WithTargetWidth(msg.Width).WithPageSize(msg.Height - 6 - hh) (and a
\* variant that rebuilds the rows, which unmarks them)
ResizeRebuildsRows(t, sz) ==
    [t EXCEPT !.targetWidth = sz.Width,
              !.pageSize = sz.Height - 6 - HelpHeight,
              !.rows = newRows(allSubsOf(t.rows))]
resize(t, sz) ==
    [t EXCEPT !.targetWidth = sz.Width,
              !.pageSize = sz.Height - 6 - HelpHeight]

-----------------------------------------------------------------------------
(* The session: model, commands and messages *)

stateLoading    == "stateLoading"
stateError      == "stateError"
stateLoaded     == "stateLoaded"
stateUnwatching == "stateUnwatching"

\* the operation a command or message belongs to: the fetch started by Init,
\* or the unwatch started by an execute command
InitOp == [origin |-> "init"]
ExecOp == [origin |-> "exec"]

\* m.loadSubs as a tea.Cmd
loadSubsCmd(op) == [type |-> "loadSubs", op |-> op]

\* func() tea.Msg { return fmt.Errorf("unwatching %s/%s: %w", ...) }
errCmd(s, op) == [type |-> "errFunc", sub |-> s, op |-> op]

\* fmt.Errorf("unwatching %s/%s: %w", s.org, s.repo, err)
UnwatchError(s) == [kind |-> "unwatch", org |-> s.org, repo |-> s.repo]

Outstanding == BagCardinality(cmds) + BagCardinality(msgs)

\* a command or message x of an operation that was dispatched while the
\* table held the rows h (history: the program keeps no such record)
dispatched(x, h) ==
    [f \in DOMAIN x \cup {"held"} |-> IF f = "held" THEN h ELSE x[f]]

\* model.unwatch: the delete calls, one after the other, up to the first
\* failure.  failAt is the position of the delete call the service fails
\* (0: none).  trace lists the network events in the order they happen.
RECURSIVE unwatchLoop(_, _, _, _, _)
unwatchLoop(subs, i, failAt, trace, op) ==
    IF i > Len(subs)
    THEN [trace |-> trace, cmd |-> loadSubsCmd(op)]
    ELSE LET s  == subs[i]
             ok == i # failAt
             t1 == trace \o <<[ev |-> "call", sub |-> s],
                              [ev |-> "ret", sub |-> s, ok |-> ok]>>
         IN  IF ~ok
             THEN [trace |-> t1, cmd |-> errCmd(s, op)]
             ELSE unwatchLoop(subs, i + 1, failAt, t1, op)

\* variants of unwatch: one that goes on after a failed delete, and one that
\* issues every delete before waiting for any of them
RECURSIVE UnwatchAllLoop(_, _, _, _, _)
UnwatchAllLoop(subs, i, failAt, trace, cmd) ==
    IF i > Len(subs) THEN [trace |-> trace, cmd |-> cmd]
    ELSE LET s  == subs[i]
             ok == i # failAt
             t1 == trace \o <<[ev |-> "call", sub |-> s],
                              [ev |-> "ret", sub |-> s, ok |-> ok]>>
         IN  UnwatchAllLoop(subs, i + 1, failAt, t1,
                            IF ok THEN cmd ELSE errCmd(s, ExecOp))
UnwatchAll(subs, failAt) ==
    UnwatchAllLoop(subs, 1, failAt, <<>>, loadSubsCmd(ExecOp))
UnwatchParallel(subs, failAt) ==
    LET r == unwatchLoop(subs, 1, failAt, <<>>, ExecOp)
        calls == SelectSeq(r.trace, LAMBDA e : e.ev = "call")
        rets  == SelectSeq(r.trace, LAMBDA e : e.ev = "ret")
    IN  [trace |-> calls \o rets, cmd |-> r.cmd]
unwatch(subs, failAt) == unwatchLoop(subs, 1, failAt, <<>>, ExecOp)

\* the subscriptions whose delete call returned without error in trace
Deleted(trace) ==
    {trace[i].sub : i \in {j \in DOMAIN trace :
                              trace[j].ev = "ret" /\ trace[j].ok}}

\* model.loadSubs run as a command: one getSubs, one subsLoadedMsg
loadSubs(l, op) ==
    LET r == getSubs(l)
    IN  [type |-> "subsLoadedMsg", subs |-> r.subs, err |-> r.err, op |-> op]

\* the message a command posts when the runtime runs it (and a variant where
\* the error command posts a fetch result)
RunCmdErrorAsFetch(c, l) ==
    IF c.type = "loadSubs" THEN loadSubs(l, c.op)
    ELSE [type |-> "subsLoadedMsg", subs |-> <<>>,
          err |-> UnwatchError(c.sub), op |-> c.op]
runCmd(c, l) ==
    IF c.type = "loadSubs" THEN loadSubs(l, c.op)
    ELSE [type |-> "error", err |-> UnwatchError(c.sub), op |-> c.op]

\* Update, case error (and a variant that records the error only)
OnErrorKeepsState(msg) == [state |-> state, err |-> msg.err, table |-> table]
onError(msg) == [state |-> stateError, err |-> msg.err, table |-> table]

\* Update, case subsLoadedMsg (and a variant that takes an empty list for a
\* failure)
OnSubsLoadedEmptyIsError(msg) ==
    IF msg.err # NoError \/ msg.subs = <<>>
    THEN [state |-> stateError, err |-> err, table |-> table]
    ELSE [state |-> stateLoaded, err |-> err,
          table |-> Focused(WithRows(table, newRows(msg.subs)), TRUE)]
onSubsLoaded(msg) ==
    IF msg.err # NoError
    THEN [state |-> stateError, err |-> err, table |-> table]
    ELSE [state |-> stateLoaded, err |-> err,
          table |-> Focused(WithRows(table, newRows(msg.subs)), TRUE)]

-----------------------------------------------------------------------------------------------------------------------------------------------------
(* Init and the steps of the event loop *)

\* newModel, then Init: tea.Batch(tea.EnterAltScreen, m.spinner.Tick, m.loadSubs)
InitSession ==
    /\ state = stateLoading
    /\ err = NoError
    /\ table = newTable
    /\ frame = 0
    /\ cmds = SetToBag({dispatched(loadSubsCmd(InitOp), AllRowSubs(newTable))})
    /\ msgs = EmptyBag
    /\ last = [ev |-> "init"]

Init ==
    /\ InitSession
    /\ remote \in SUBSET Watchable
    /\ listing = NoListing

\* the program runs until tea.Quit
running == last.ev # "quit"

\* Update, case tea.KeyMsg, km.Quit
KeyQuit ==
    /\ running
    /\ last' = [ev |-> "quit"]
    /\ UNCHANGED <<state, err, table, frame, cmds, msgs, remote, listing>>

\* Update, case tea.KeyMsg, km.Exec: the selected rows are collected, the
\* deletes are issued by m.unwatch(subs), and the command it returns is
\* handed to the runtime
KeyExec ==
    /\ running
    /\ Outstanding < MaxOutstanding
    /\ LET subs == SelectedSubs(table) IN
       \E failAt \in 0..Len(subs) :
          LET r == unwatch(subs, failAt) IN
          /\ state' = stateUnwatching
          /\ remote' = remote \ Deleted(r.trace)
          /\ cmds' = cmds (+) SetToBag({dispatched(r.cmd, AllRowSubs(table))})
          /\ last' = [ev |-> "exec", from |-> state, subs |-> subs,
                      failAt |-> failAt, trace |-> r.trace, cmd |-> r.cmd]
    /\ UNCHANGED <<err, table, frame, msgs, listing>>

\* Update, case tea.KeyMsg, any other key: forwarded to the table
KeyOther ==
    /\ running
    /\ \E k \in TableKeys :
          /\ table' = tableUpdate(table, k)
          /\ last' = IF k = " "
                     THEN [ev |-> "mark", before |-> table,
                           twice |-> last.ev = "mark"]
                     ELSE [ev |-> "other"]
    /\ UNCHANGED <<state, err, frame, cmds, msgs, remote, listing>>

\* Update, case tea.WindowSizeMsg
WindowSize ==
    /\ running
    /\ \E sz \in Sizes : table' = resize(table, sz)
    /\ last' = [ev |-> "other"]
    /\ UNCHANGED <<state, err, frame, cmds, msgs, remote, listing>>

\* Update, case spinner.TickMsg
SpinnerTick ==
    /\ running
    /\ frame' = (frame + 1) % NumFrames
    /\ last' = [ev |-> "other"]
    /\ UNCHANGED <<state, err, table, cmds, msgs, remote, listing>>

\* the runtime runs a pending command; it posts its message
RunCmd ==
    /\ running
    /\ \E c \in BagToSet(cmds) :
       \E l \in ListingsOf(remote) :
          LET m == dispatched(runCmd(c, l), c.held) IN
          /\ cmds' = cmds (-) SetToBag({c})
          /\ msgs' = msgs (+) SetToBag({m})
          /\ last' = [ev |-> "other"]
    /\ UNCHANGED <<state, err, table, frame, remote, listing>>

\* Update for a completion message: case error, case subsLoadedMsg
update(m) == IF m.type = "error" THEN onError(m) ELSE onSubsLoaded(m)

Deliver ==
    /\ running
    /\ \E m \in BagToSet(msgs) :
          LET r == update(m) IN
          /\ msgs' = msgs (-) SetToBag({m})
          /\ state' = r.state
          /\ err' = r.err
          /\ table' = r.table
          /\ last' = [ev |-> "deliver", msg |-> m]
    /\ UNCHANGED <<frame, cmds, remote, listing>>

Next ==
    \/ KeyQuit
    \/ KeyExec
    \/ KeyOther
    \/ WindowSize
    \/ SpinnerTick
    \/ RunCmd
    \/ Deliver

Spec == Init /\ [][Next]_vars

-----------------------------------------------------------------------------
(* The first fetch of a session, against every listing *)

AllListings == UNION {ListingsOf(S) : S \in SUBSET Universe}

InitFetch ==
    /\ InitSession
    /\ listing \in AllListings
    /\ remote = Range(Flatten(listing.pages))

\* the runtime runs m.loadSubs, the service paging as listing says
FetchRun ==
    /\ running
    /\ \E c \in BagToSet(cmds) :
          /\ cmds' = cmds (-) SetToBag({c})
          /\ msgs' = msgs (+)
                        SetToBag({dispatched(runCmd(c, listing), c.held)})
          /\ last' = [ev |-> "fetch", out |-> getSubs(listing)]
    /\ UNCHANGED <<state, err, table, frame, remote, listing>>

NextFetch ==
    \/ FetchRun
    \/ Deliver

SpecFetch == InitFetch /\ [][NextFetch]_vars

-----------------------------------------------------------------------------
(* Properties *)

\* a precedes b in the order of the snapshot: by organization, then repository
Precedes(a, b) ==
    \/ StrLess(a.org, b.org)
    \/ a.org = b.org /\ StrLess(a.repo, b.repo)

IsSnapshotOf(s, S) ==
    /\ Len(s) = Cardinality(S)
    /\ Range(s) = S
    /\ \A i, j \in DOMAIN s : i < j => Precedes(s[i], s[j])

\* how often x occurs in the sequence s
Count(x, s) == Cardinality({i \in DOMAIN s : s[i] = x})

\* the delete calls of a trace, in the order they were issued
Calls(trace) ==
    LET c == SelectSeq(trace, LAMBDA e : e.ev = "call")
    IN  [i \in DOMAIN c |-> c[i].sub]

\* the subs of the marked rows among the first n rows, in row order
RECURSIVE MarkedUpTo(_, _)
MarkedUpTo(rows, n) ==
    IF n = 0 THEN <<>>
    ELSE MarkedUpTo(rows, n - 1)
         \o (IF rows[n].selected THEN <<rows[n].data>> ELSE <<>>)

Marked(t) == MarkedUpTo(t.rows, Len(t.rows))

NoRowMarked(t) == \A i \in DOMAIN t.rows : ~t.rows[i].selected

\* C1: a bulk unwatch is fail-fast.  When the k-th delete call of the n
\* selected subscriptions is the first to fail, the deletes issued are
\* exactly those for positions 1..k in selection order (1..k-1 succeeded
\* before it), none is issued for k+1..n, and the error handed to the
\* session names the organization and repository of the k-th subscription.
C1_FailFast ==
    (last.ev = "exec" /\ last.failAt # 0) =>
        LET k == last.failAt
            subs == last.subs
        IN  /\ subs = Marked(table)
            /\ Calls(last.trace) = SubSeq(subs, 1, k)
            /\ Len(last.trace) = 2 * k
            /\ \A i \in 1..k :
                  /\ last.trace[2 * i - 1] = [ev |-> "call", sub |-> subs[i]]
                  /\ last.trace[2 * i] =
                        [ev |-> "ret", sub |-> subs[i], ok |-> i < k]
            /\ last.cmd.type = "errFunc"
            /\ runCmd(last.cmd, NoListing).type = "error"
            /\ runCmd(last.cmd, NoListing).err =
                  [kind |-> "unwatch", org |-> subs[k].org,
                   repo |-> subs[k].repo]

C1_Witness ==
    /\ last.ev = "exec"
    /\ Len(last.subs) = 2
    /\ last.failAt = 1
    /\ Calls(last.trace) = <<last.subs[1]>>
    /\ last.cmd.type = "errFunc"
    /\ last.cmd.sub = last.subs[1]

\* what C2 asks of a single step
C2_Step ==
    /\ (last'.ev = "exec" /\ state = stateLoaded /\ NoRowMarked(table)) =>
          /\ last'.trace = <<>>
          /\ remote' = remote
          /\ \E c \in BagToSet(cmds') :
                /\ cmds' = cmds (+) SetToBag({c})
                /\ c.type = "loadSubs"
                /\ c.op = ExecOp
          /\ msgs' = msgs
    /\ \A c \in BagToSet(cmds) :
          (/\ c.type = "loadSubs"
           /\ c.op = ExecOp
           /\ cmds' = cmds (-) SetToBag({c})) =>
              \E m \in BagToSet(msgs') :
                 /\ msgs' = msgs (+) SetToBag({m})
                 /\ m.type = "subsLoadedMsg"
                 /\ m.op = ExecOp
    /\ (/\ last'.ev = "deliver"
        /\ last'.msg.type = "subsLoadedMsg"
        /\ last'.msg.op = ExecOp
        /\ last'.msg.err = NoError) => state' = stateLoaded

\* C2: an execute command processed in the loaded state with no row marked
\* issues no delete call and dispatches exactly one fetch; running that
\* fetch posts exactly one message, and when the fetch succeeded, processing
\* the message puts the session in the loaded state.
C2_ZeroSelectionExec == [][C2_Step]_vars

C2_Witness ==
    /\ last.ev = "exec"
    /\ last.from = stateLoaded
    /\ Len(table.rows) = 2
    /\ NoRowMarked(table)
    /\ last.trace = <<>>
    /\ last.cmd = loadSubsCmd(ExecOp)

\* C3: a successful fetch returns each subscription of every page exactly
\* once and nothing else, ordered by organization and then by repository,
\* whatever the pages and the last-page estimate; pages carrying
\* (acme,widgets),(acme,gadgets),(zeta,tools) give
\* (acme,gadgets),(acme,widgets),(zeta,tools).
C3_FetchSorted ==
    (last.ev = "fetch" /\ last.out.err = NoError) =>
        LET in  == Flatten(listing.pages)
            out == last.out.subs
        IN  /\ Len(out) = Len(in)
            /\ \A x \in Universe : Count(x, out) = Count(x, in)
            /\ \A i, j \in DOMAIN out : i < j => Precedes(out[i], out[j])
            /\ in = <<AcmeWidgets, AcmeGadgets, ZetaTools>> =>
                  out = <<AcmeGadgets, AcmeWidgets, ZetaTools>>
            /\ \E m \in BagToSet(msgs) : m.subs = out /\ m.err = NoError

C3_Witness ==
    /\ last.ev = "fetch"
    /\ last.out.err = NoError
    /\ listing.pages = <<<<AcmeWidgets, AcmeGadgets>>, <<ZetaTools>>>>
    /\ listing.lastPage = 0
    /\ last.out.subs = <<AcmeGadgets, AcmeWidgets, ZetaTools>>

\* C4: whenever the session is in the error state the recorded error is set:
\* every failed completion, of a fetch or of an unwatch, is recorded as the
\* last error.
C4_ErrorRecorded == state = stateError => err # NoError

\* C5: the pages are requested from page 1 on, and when the request for page
\* p fails no further page is requested, no subscription is returned, and
\* the error names page p.
C5_FetchErrorNamesPage ==
    (last.ev = "fetch" /\ listing.failPage # 0) =>
        /\ Len(last.out.reqs) = listing.failPage
        /\ last.out.subs = <<>>
        /\ last.out.err = [kind |-> "fetch", page |-> listing.failPage]

\* what C6 asks of a single step
C6_Step ==
    /\ (state' = stateUnwatching /\ state # stateUnwatching) =>
          state = stateLoaded
    /\ (last'.ev = "exec" /\ state # stateLoaded) =>
          /\ state' = state
          /\ cmds' = cmds
          /\ remote' = remote
          /\ last'.trace = <<>>

\* C6: the session enters the unwatching state only from the loaded state; an
\* execute command processed in another state changes nothing and starts no
\* bulk unwatch.
C6_UnwatchingOnlyFromLoaded == [][C6_Step]_vars

\* what C7 asks of a single step
C7_Step ==
    /\ \A c \in BagToSet(cmds) :
          (/\ c.type = "loadSubs"
           /\ c.op = ExecOp
           /\ cmds' = cmds (-) SetToBag({c})) =>
              \E m \in BagToSet(msgs') :
                 /\ msgs' = msgs (+) SetToBag({m})
                 /\ m.op = ExecOp
                 /\ m.err = NoError => IsSnapshotOf(m.subs, remote)
    /\ (/\ last'.ev = "deliver"
        /\ last'.msg.type = "subsLoadedMsg"
        /\ last'.msg.op = ExecOp
        /\ last'.msg.err = NoError) =>
          /\ state' = stateLoaded
          /\ AllRowSubs(table') = last'.msg.subs

\* C7: when every deletion of an unwatch succeeded and the refresh that
\* follows succeeded, the snapshot it carries is the ordered content of the
\* service at the time of the fetch, and processing the completion puts the
\* session in the loaded state with rows equal, in order, to that snapshot.
C7_RefreshRepopulates == [][C7_Step]_vars

C7_Witness ==
    /\ last.ev = "deliver"
    /\ last.msg.type = "subsLoadedMsg"
    /\ last.msg.op = ExecOp
    /\ last.msg.err = NoError
    /\ last.msg.subs = <<ZetaTools>>
    /\ remote = {ZetaTools}
    /\ state = stateLoaded
    /\ AllRowSubs(table) = <<ZetaTools>>

\* C8: when the listing is a single empty page, the fetch returns an empty
\* list and no error, and the session moves to the loaded state with a
\* table of zero rows; it is never in the error state.
C8_EmptyAccountLoads ==
    (listing.pages = <<<<>>>> /\ listing.failPage = 0) =>
        /\ state # stateError
        /\ last.ev = "fetch" =>
              /\ last.out.subs = <<>>
              /\ last.out.err = NoError
              /\ \A m \in BagToSet(msgs) : m.subs = <<>> /\ m.err = NoError
        /\ last.ev = "deliver" =>
              /\ state = stateLoaded
              /\ table.rows = <<>>

C8_Witness ==
    /\ listing.pages = <<<<>>>>
    /\ listing.failPage = 0
    /\ last.ev = "deliver"
    /\ state = stateLoaded
    /\ table.rows = <<>>

\* C9: in a bulk unwatch whose deletes all succeed, the delete calls are
\* issued exactly for the subscriptions marked when the execute command is
\* processed, once each, in row order, each call returning before the next
\* is issued; no unmarked subscription receives a delete call.
C9_DeletesMarkedInOrder ==
    (last.ev = "exec" /\ last.failAt = 0) =>
        LET subs == Marked(table)
            n == Len(subs)
        IN  /\ last.subs = subs
            /\ Len(last.trace) = 2 * n
            /\ \A i \in 1..n :
                  /\ last.trace[2 * i - 1] = [ev |-> "call", sub |-> subs[i]]
                  /\ last.trace[2 * i] =
                        [ev |-> "ret", sub |-> subs[i], ok |-> TRUE]
            /\ \A i \in DOMAIN table.rows :
                  ~table.rows[i].selected =>
                      Count(table.rows[i].data, Calls(last.trace)) = 0
            /\ \A i \in DOMAIN subs : subs[i] \notin remote
            /\ last.cmd = loadSubsCmd(ExecOp)

C9_Witness ==
    /\ last.ev = "exec"
    /\ last.failAt = 0
    /\ Calls(last.trace) = <<AcmeGadgets, ZetaTools>>
    /\ Len(table.rows) = 2
    /\ remote = {}

\* what C10 asks of a single step
C10_Step ==
    /\ last'.ev = "mark" =>
          /\ state' = state
          /\ AllRowSubs(table') = AllRowSubs(table)
          /\ last'.before = table
    /\ (last.ev = "mark" /\ last'.ev = "mark" /\ state = stateLoaded) =>
          /\ last'.twice
          /\ Marked(table') = Marked(last.before)
          /\ table' = last.before

\* C10: in the loaded state, toggling the mark of the focused row twice in a
\* row leaves the selection as it was before the two toggles; a toggle
\* changes neither the session state nor the subscriptions of the rows.
C10_ToggleTwice == [][C10_Step]_vars

C10_Witness ==
    /\ last.ev = "mark"
    /\ last.twice
    /\ state = stateLoaded
    /\ Len(table.rows) = 2
    /\ table.rowCursorIndex = 1
    /\ Marked(table) = <<AcmeGadgets>>

\* C11: the event loop performs no network call while it handles a message:
\* the step that processes the execute command issues no delete call (the
\* deletes are left to a detached unit of work), so the service is unchanged
\* by that step.
C11_NoNetworkInUpdate ==
    [][last'.ev = "exec" => (last'.trace = <<>> /\ remote' = remote)]_vars

\* what C12 asks of a single step
C12_Step ==
    (/\ state = stateError
     /\ \/ last'.ev \in {"exec", "mark"}
        \/ last'.ev = "other" /\ msgs' = msgs) =>
        /\ state' = stateError
        /\ cmds' = cmds
        /\ msgs' = msgs
        /\ remote' = remote
        /\ last'.ev = "exec" => last'.trace = <<>>

\* C12: in the error state no key press (toggle, execute), tick or resize
\* issues a delete or a fetch or changes the state; only quit or the
\* completion of an operation already outstanding leaves the error state.
C12_ErrorIsSticky == [][C12_Step]_vars


\* what C13 asks of a single step
C13_Step ==
    /\ (/\ last'.ev = "deliver"
        /\ \/ last'.msg.type = "error"
           \/ last'.msg.type = "subsLoadedMsg" /\ last'.msg.err # NoError) =>
          /\ AllRowSubs(table') = AllRowSubs(table)
          /\ AllRowSubs(table') = last'.msg.held
    /\ (last'.ev = "exec" /\ last'.failAt # 0) =>
          /\ last'.cmd.type = "errFunc"
          /\ \A c \in BagToSet(cmds') :
                c.type = "loadSubs" => CopiesIn(c, cmds') = CopiesIn(c, cmds)

\* C13: an error completion leaves the rows untouched.  When the completion
\* of a failed fetch or of a failed bulk unwatch is processed, the rows of the
\* table are afterwards exactly the rows held when the operation was
\* dispatched; and an execute command one of whose deletes fails dispatches
\* no fetch.
C13_ErrorKeepsRows == [][C13_Step]_vars


\* what C14 asks of a single step: a tick is the step that advances the
\* animation frame, a resize the step that sets the sizing of the table
C14_Step ==
    (\/ frame' # frame
     \/ /\ last'.ev = "other"
        /\ cmds' = cmds
        /\ \E sz \in Sizes : table' = resize(table, sz)) =>
        /\ state' = state
        /\ err' = err
        /\ table'.rows = table.rows
        /\ AllRowSubs(table') = AllRowSubs(table)
        /\ Marked(table') = Marked(table)
        /\ cmds' = cmds
        /\ msgs' = msgs
        /\ remote' = remote

\* C14: in every session state, processing a viewport resize or an animation
\* tick leaves the session state, the rows, the selection and the recorded
\* error unchanged, and issues no fetch and no delete.
C14_ResizeTickFrame == [][C14_Step]_vars

C14_Witness ==
    /\ last.ev = "other"
    /\ frame = 1
    /\ table.pageSize = 24 - 6 - HelpHeight
    /\ table.targetWidth = 80
    /\ state = stateError
    /\ err # NoError
    /\ Len(table.rows) = 2
    /\ Marked(table) = <<ZetaTools>>
    /\ Outstanding = 0


\* what C15 asks of a single step
C15_Step ==
    (/\ last'.ev = "deliver"
     /\ last'.msg.type = "subsLoadedMsg"
     /\ last'.msg.err = NoError) =>
        /\ \A s \in Range(Marked(table)) :
              s \in Range(last'.msg.subs) => s \in Range(Marked(table'))
        /\ Range(Marked(table')) \subseteq Range(last'.msg.subs)

\* C15: selections are re-established by identity after a refresh.  Whenever
\* the completion of a successful fetch replaces the rows, every subscription
\* marked before and present in the new snapshot is still marked afterwards,
\* and no subscription absent from the new snapshot is marked.
C15_MarksSurviveRefresh == [][C15_Step]_vars


\* what C16 asks of a single step
C16_Step ==
    /\ last'.ev = "exec" =>
          /\ msgs' = msgs
          /\ \E c \in BagToSet(cmds') :
                /\ cmds' = cmds (+) SetToBag({c})
                /\ c.op = ExecOp
                /\ c.type = IF last'.failAt = 0 THEN "loadSubs" ELSE "errFunc"
    /\ (last'.ev # "exec" /\ cmds' # cmds) =>
          \E c \in BagToSet(cmds) :
          \E m \in BagToSet(msgs') :
             /\ cmds' = cmds (-) SetToBag({c})
             /\ msgs' = msgs (+) SetToBag({m})
             /\ m.op = c.op
             /\ m.type = IF c.type = "loadSubs" THEN "subsLoadedMsg"
                         ELSE "error"
    /\ (cmds' = cmds /\ msgs' # msgs) => last'.ev = "deliver"
    /\ last'.ev = "deliver" =>
          /\ cmds' = cmds
          /\ BagIn(last'.msg, msgs)
          /\ msgs' = msgs (-) SetToBag({last'.msg})

\* C16: every dispatched asynchronous operation delivers exactly one
\* completion message.  The execute command dispatches one command, the error
\* command when a delete failed and the fetch otherwise; a command that is
\* run is consumed and posts exactly one message, an error for the error
\* command and a fetch result for a fetch; a message is processed once, and
\* nothing else adds or removes commands or messages.
C16_OneCompletion == [][C16_Step]_vars

C16_Witness ==
    /\ last.ev = "deliver"
    /\ last.msg.type = "error"
    /\ last.msg.op = ExecOp
    /\ state = stateError
    /\ err = UnwatchError(ZetaTools)
    /\ ZetaTools \in remote
    /\ Outstanding = 0


\* The session under a fair runtime: a pending command is eventually run
\* (every network call returns) and a posted message is eventually processed
\* by the event loop.  The account watches at most one repository.
InitLive ==
    /\ InitSession
    /\ remote \in SUBSET {AcmeGadgets}
    /\ listing = NoListing

SpecLive == InitLive /\ [][Next]_vars /\ WF_vars(RunCmd) /\ WF_vars(Deliver)

\* C17: provided every network call returns and the event loop is fair, a
\* session in the loading or the unwatching state eventually reaches the
\* loaded or the error state, unless the user quits.
C17_EventuallySettles ==
    (state \in {stateLoading, stateUnwatching}) ~>
        (state \in {stateLoaded, stateError} \/ ~running)

C17_Witness ==
    /\ state = stateUnwatching
    /\ last.ev = "exec"
    /\ last.from = stateLoaded
    /\ last.failAt = 0
    /\ Calls(last.trace) = <<AcmeGadgets>>
    /\ Outstanding = 1


\* C18: at most one asynchronous operation is outstanding at any time: never
\* more than one fetch or unwatch-and-refresh has been dispatched without its
\* completion message having been processed, whatever keys are pressed while
\* the session is loading or unwatching.
C18_AtMostOneOutstanding == Outstanding <= 1

====
